---- MODULE Spec2Model ----
(***************************************************************************)
(* Key custody (SecureKeyManager), the loaded key handle                   *)
(* (SecureCryptoUtils) and the chunked encryption / reconstruction         *)
(* pipeline of the decentralized-storage demo, as a state machine.         *)
(*                                                                         *)
(* The platform primitives are idealised: SHA-256 is an injective symbolic *)
(* digest, PBKDF2 an injective function of (password, salt), AES-GCM a     *)
(* sealed box that opens only under the sealing key and iv and only if its *)
(* tag is intact.  Everything around them (hex coding, record layout,      *)
(* store lookups, error handling) is modelled as the code computes it.     *)
(***************************************************************************)
EXTENDS Integers, Sequences, FiniteSets, TLC

(* ------------------------------ bounds --------------------------------- *)
\* number of distinct 32-byte key materials crypto.getRandomValues may yield
NumKeys == 2
\* number of distinct non-empty passwords a user may type
NumPasswords == 2

(* --------------------------- value domains ----------------------------- *)
\* key material, shortened to two bytes; byte 1 is < 16 so that the
\* zero padding of the hex coding matters
KeyOf(i) == <<i, (16 * i + 7) % 256>>
Keys == {KeyOf(i) : i \in 1..NumKeys}

\* "" is the absent / empty password: `if (password)` is false for both
NoPassword == ""
PasswordOf(i) == IF i = 1 THEN "pw1" ELSE IF i = 2 THEN "pw2" ELSE "pw3"
Passwords == {PasswordOf(i) : i \in 1..NumPasswords}
OptPasswords == Passwords \cup {NoPassword}

\* the one symbolic value of a fresh random salt / iv: no branch of the
\* program depends on which one was drawn
Salts == {1}
IVs == {1}

\* null for Uint8Array | null and for a returned hex string
Null == <<>>

(* ---------------------------- hex coding ------------------------------- *)
\* Array.from(bytes).map(b => b.toString(16).padStart(2, '0')).join('')
ToHex(bytes) ==
    [i \in 1..(2 * Len(bytes)) |->
        IF i % 2 = 1 THEN bytes[(i + 1) \div 2] \div 16
                     ELSE bytes[i \div 2] % 16]

\* hex.match(/.{1,2}/g)!.map(byte => parseInt(byte, 16))
FromHex(hex) ==
    [i \in 1..((Len(hex) + 1) \div 2) |->
        IF 2 * i <= Len(hex) THEN 16 * hex[2 * i - 1] + hex[2 * i]
                             ELSE hex[2 * i - 1]]

(* ------------------------- platform primitives ------------------------- *)
\* a byte string is either raw bytes or the text of joined hex digests
RawBytes(bytes) == [raw |-> bytes, hex |-> <<>>]

\* crypto.subtle.digest('SHA-256', data), rendered as hex
Sha256(byteString) == [of |-> byteString]

\* crypto.subtle.deriveKey(PBKDF2, salt, 100000, SHA-256) -> AES-GCM key
DeriveKey(password, salt) == <<password, salt>>

\* crypto.subtle.encrypt({name: 'AES-GCM', iv}, key, plaintext)
AesGcmEncrypt(key, iv, plaintext) ==
    [dk |-> key, iv |-> iv, pt |-> plaintext, tag |-> TRUE]

\* crypto.subtle.decrypt: throws unless key, iv and tag all verify
AesGcmOpens(key, iv, ct) == ct.tag /\ ct.dk = key /\ ct.iv = iv

NoCt == [dk |-> <<NoPassword, 0>>, iv |-> 0, pt |-> Null, tag |-> FALSE]

(* --------------------------- stored records ---------------------------- *)
\* `${STORAGE_PREFIX}${MASTER_KEY_ID}_${KEY_VERSION}`
PlainName == "secure_file_splitter_master_key_v1"
\* `${STORAGE_PREFIX}${MASTER_KEY_ID}_encrypted_${KEY_VERSION}`
EncName == "secure_file_splitter_master_key_encrypted_v1"
\* the lookup order of hasMasterKey / getFromLocalStorage / getFromIndexedDB
StorageKeys == <<PlainName, EncName>>
StorageNames == {PlainName, EncName}

\* the `data` string of a record: plain hex of the key, or the hex of
\* salt || iv || ciphertext (kept as its three slices)
PlainData(hexKey) == [hex |-> hexKey, salt |-> 0, iv |-> 0, ct |-> NoCt]
WrappedData(salt, iv, ct) == [hex |-> Null, salt |-> salt, iv |-> iv, ct |-> ct]

\* getItem() === null / getRequest.result === undefined
NoRecord ==
    [present |-> FALSE, encrypted |-> FALSE, data |-> PlainData(Null),
     imported |-> FALSE]

\* JSON.stringify({encrypted, data, timestamp, version[, imported]});
\* timestamp and version are never read back and are left out
KeyRecord(encrypted, data, imported) ==
    [present |-> TRUE, encrypted |-> encrypted, data |-> data,
     imported |-> imported]

EmptyStore == [n \in StorageNames |-> NoRecord]

(* ------------------------ environment outcomes ------------------------- *)
\* localStorage.setItem: succeeds or throws (quota, storage disabled)
LsWriteModes == {"ok", "quotaExceeded"}
\* storeInIndexedDB: resolves only on transaction.oncomplete
IdbWriteModes == {"ok", "openError", "blocked", "txError", "putError"}
\* getDataFromIndexedDB: every failure resolves null
IdbReadModes == {"ok", "openError", "getError"}
\* clearIndexedDB: every failure resolves without clearing
IdbClearModes == {"ok", "openError", "txError"}

(* ------------------------- operation outcomes -------------------------- *)
\* what the caller of an operation observes: `err` is the error thrown to
\* the caller, `cause` the inner error the code caught and logged
Outcome(op, pw, ok, value, err, cause) ==
    [op |-> op, pw |-> pw, ok |-> ok, value |-> value, err |-> err,
     cause |-> cause]

NoError == "none"

(* --------------------- SecureKeyManager: helpers ----------------------- *)
encryptKeyWithPassword(keyMaterial, password, salt, iv) ==
    WrappedData(salt, iv,
                AesGcmEncrypt(DeriveKey(password, salt), iv, keyMaterial))

\* slices salt, iv and ciphertext back out and opens the box
decryptKeyWithPassword(data, password) ==
    LET derivedKey == DeriveKey(password, data.salt)
    IN  IF AesGcmOpens(derivedKey, data.iv, data.ct)
        THEN [threw |-> FALSE, value |-> data.ct.pt]
        ELSE [threw |-> TRUE, value |-> Null]

calculateChecksum(data) == Sha256(RawBytes(data))

\* the error parseStoredKey raises inside its own try block, if any
parseStoredKeyCaught(stored, password) ==
    IF stored.encrypted /\ password # NoPassword
    THEN IF decryptKeyWithPassword(stored.data, password).threw
         THEN "AuthenticationFailure" ELSE NoError
    ELSE IF ~stored.encrypted THEN NoError
    ELSE "PasswordRequired"

\* every error raised inside is caught by the function itself: null
parseStoredKey(stored, password) ==
    IF parseStoredKeyCaught(stored, password) # NoError THEN Null
    ELSE IF stored.encrypted
         THEN decryptKeyWithPassword(stored.data, password).value
         ELSE FromHex(stored.data.hex)

\* the first name, in lookup order, whose record is present and parses
FirstParsed(records, password) ==
    LET hits == {i \in 1..Len(StorageKeys) :
                    /\ records[StorageKeys[i]].present
                    /\ parseStoredKey(records[StorageKeys[i]], password) # Null}
    IN  IF hits = {} THEN Null
        ELSE LET first == CHOOSE i \in hits : \A j \in hits : i <= j
             IN  parseStoredKey(records[StorageKeys[first]], password)

\* the error logged while walking the records, for the outcome's `cause`
FirstCaught(records, password) ==
    LET bad == {i \in 1..Len(StorageKeys) :
                    /\ records[StorageKeys[i]].present
                    /\ parseStoredKeyCaught(records[StorageKeys[i]], password)
                           # NoError}
    IN  IF bad = {} THEN NoError
        ELSE LET first == CHOOSE i \in bad : \A j \in bad : i <= j
             IN  parseStoredKeyCaught(records[StorageKeys[first]], password)

getFromLocalStorage(ls, password) == FirstParsed(ls, password)

\* what getDataFromIndexedDB resolves for each name under the read modes
IdbView(idb, readModes) ==
    [n \in StorageNames |-> IF readModes[n] = "ok" THEN idb[n] ELSE NoRecord]

getFromIndexedDB(idb, password, readModes) ==
    FirstParsed(IdbView(idb, readModes), password)

\* rejects unless the transaction completes; the put is then durable
storeInIndexedDB(idb, key, data, mode) ==
    IF mode = "ok" THEN [threw |-> FALSE, idb |-> [idb EXCEPT ![key] = data]]
                   ELSE [threw |-> TRUE, idb |-> idb]

\* always resolves; clears the object store only if the transaction ran
clearIndexedDB(idb, mode) ==
    IF mode = "ok" THEN EmptyStore ELSE idb

\* a variant of the primary write that keeps a record already there
setItem_ifAbsent(ls, key, data) ==
    IF ls[key].present THEN ls ELSE [ls EXCEPT ![key] = data]

\* localStorage.setItem: replaces the whole item under the name
setItem(ls, key, data) ==
    [ls EXCEPT ![key] = data]

(* -------------------- SecureKeyManager: operations --------------------- *)
\* storageKey and keyData as generateAndStoreMasterKey builds them
GeneratedName(password) ==
    IF password # NoPassword THEN EncName ELSE PlainName

GeneratedRecord(keyMaterial, password, salt, iv) ==
    IF password # NoPassword
    THEN KeyRecord(TRUE, encryptKeyWithPassword(keyMaterial, password, salt, iv),
                   FALSE)
    ELSE KeyRecord(FALSE, PlainData(ToHex(keyMaterial)), FALSE)

\* earlier revision: the secondary write is awaited inside the outer try
generateAndStoreMasterKey_v0(ls, idb, password, keyMaterial, salt, iv, cryptoAvailable, lsMode, idbMode) ==
    LET name == GeneratedName(password)
        rec == GeneratedRecord(keyMaterial, password, salt, iv)
        stored == storeInIndexedDB(idb, name, rec, idbMode)
        failed(cause, ls2) ==
            [ls |-> ls2, idb |-> idb,
             out |-> Outcome("generate", password, FALSE, Null,
                             "GenerateFailed", cause)]
    IN  IF ~cryptoAvailable THEN failed("UnsupportedEnvironment", ls)
        ELSE IF lsMode # "ok" THEN failed("StorageWriteFailure", ls)
        ELSE IF stored.threw
             THEN failed("SecondaryStoreFailure", [ls EXCEPT ![name] = rec])
        ELSE [ls |-> [ls EXCEPT ![name] = rec], idb |-> stored.idb,
              out |-> Outcome("generate", password, TRUE, ToHex(keyMaterial),
                              NoError, NoError)]

\* a variant that mirrors to the secondary store before the primary write
generateAndStoreMasterKey_idbFirst(ls, idb, password, keyMaterial, salt, iv, cryptoAvailable, lsMode, idbMode) ==
    LET name == GeneratedName(password)
        rec == GeneratedRecord(keyMaterial, password, salt, iv)
        stored == storeInIndexedDB(idb, name, rec, idbMode)
    IN  IF ~cryptoAvailable
        THEN [ls |-> ls, idb |-> idb,
              out |-> Outcome("generate", password, FALSE, Null,
                              "GenerateFailed", "UnsupportedEnvironment")]
        ELSE IF lsMode # "ok"
        THEN [ls |-> ls, idb |-> stored.idb,
              out |-> Outcome("generate", password, FALSE, Null,
                              "GenerateFailed", "StorageWriteFailure")]
        ELSE [ls |-> [ls EXCEPT ![name] = rec], idb |-> stored.idb,
              out |-> Outcome("generate", password, TRUE, ToHex(keyMaterial),
                              NoError,
                              IF stored.threw THEN "SecondaryStoreFailure"
                                              ELSE NoError)]

generateAndStoreMasterKey(ls, idb, password, keyMaterial, salt, iv, cryptoAvailable, lsMode, idbMode) ==
    LET name == GeneratedName(password)
        rec == GeneratedRecord(keyMaterial, password, salt, iv)
        \* runs only after localStorage.setItem returned
        stored == storeInIndexedDB(idb, name, rec, idbMode)
        failed(cause) ==
            [ls |-> ls, idb |-> idb,
             out |-> Outcome("generate", password, FALSE, Null,
                             "GenerateFailed", cause)]
    IN  IF ~cryptoAvailable THEN failed("UnsupportedEnvironment")
        ELSE IF lsMode # "ok" THEN failed("StorageWriteFailure")
        ELSE [ls |-> [ls EXCEPT ![name] = rec], idb |-> stored.idb,
              out |-> Outcome("generate", password, TRUE, ToHex(keyMaterial),
                              NoError,
                              IF stored.threw THEN "SecondaryStoreFailure"
                                              ELSE NoError)]

\* what getMasterKey leaves in the log: a failed secondary read if the
\* secondary was consulted, else the error parseStoredKey swallowed
GetLogged(ls, password, fromLs, readModes) ==
    IF fromLs = Null /\ (\E n \in StorageNames : readModes[n] # "ok")
    THEN "SecondaryStoreFailure"
    ELSE FirstCaught(ls, password)

\* a variant that asks the secondary store first
getMasterKey_idbFirst(ls, idb, password, readModes) ==
    LET fromIdb == getFromIndexedDB(idb, password, readModes)
        fromLs == getFromLocalStorage(ls, password)
        keyData == IF fromIdb # Null THEN fromIdb ELSE fromLs
    IN  IF keyData = Null
        THEN Outcome("getMasterKey", password, FALSE, Null, "KeyNotFound",
                     GetLogged(ls, password, fromLs, readModes))
        ELSE Outcome("getMasterKey", password, TRUE, keyData, NoError,
                     GetLogged(ls, password, fromLs, readModes))

getMasterKey(ls, idb, password, readModes) ==
    LET fromLs == getFromLocalStorage(ls, password)
        keyData == IF fromLs # Null THEN fromLs
                   ELSE getFromIndexedDB(idb, password, readModes)
    IN  IF keyData = Null
        THEN Outcome("getMasterKey", password, FALSE, Null, "KeyNotFound",
                     GetLogged(ls, password, fromLs, readModes))
        ELSE Outcome("getMasterKey", password, TRUE, keyData, NoError,
                     GetLogged(ls, password, fromLs, readModes))

hasMasterKey(ls, idb, readModes) ==
    \/ \E n \in StorageNames : ls[n].present
    \/ \E n \in StorageNames : IdbView(idb, readModes)[n].present

\* every key of localStorage with the installation prefix is removed
clearAllKeys(ls, idb, clearMode) ==
    [ls |-> EmptyStore, idb |-> clearIndexedDB(idb, clearMode),
     out |-> Outcome("clearAllKeys", NoPassword, TRUE, Null, NoError,
                     IF clearMode = "ok" THEN NoError
                                         ELSE "SecondaryStoreFailure")]

(* --------------------------- backup blobs ------------------------------ *)
\* btoa(JSON.stringify({version, timestamp, data, checksum}))
BackupBlob(data, checksum) ==
    [exists |-> TRUE, wellFormed |-> TRUE, data |-> data, checksum |-> checksum]

NoBackup ==
    [exists |-> FALSE, wellFormed |-> FALSE, data |-> PlainData(Null),
     checksum |-> Sha256(RawBytes(Null))]

\* what a damaged copy of a blob can look like to importKeyFromBackup
CorruptCiphertext(blob) ==
    [blob EXCEPT !.data = [@ EXCEPT !.ct = [@ EXCEPT !.tag = FALSE]]]
CorruptChecksum(blob) == [blob EXCEPT !.checksum = Sha256(RawBytes(Null))]
Malformed(blob) == [blob EXCEPT !.wellFormed = FALSE]
CorruptedCopies(blob) ==
    {CorruptCiphertext(blob), CorruptChecksum(blob), Malformed(blob)}

exportKeyForBackup(ls, idb, password, salt, iv, readModes) ==
    LET got == getMasterKey(ls, idb, NoPassword, readModes)
    IN  IF ~got.ok
        THEN [blob |-> NoBackup,
              out |-> Outcome("export", password, FALSE, Null, got.err,
                              got.cause)]
        ELSE [blob |-> BackupBlob(
                          encryptKeyWithPassword(got.value, password, salt, iv),
                          calculateChecksum(got.value)),
              out |-> Outcome("export", password, TRUE, got.value, NoError,
                              NoError)]

\* a variant that stores whatever the blob decrypts to
importKeyFromBackup_noChecksum(ls, idb, blob, password, lsMode, idbMode) ==
    LET dec == decryptKeyWithPassword(blob.data, password)
        rec == KeyRecord(FALSE, PlainData(ToHex(dec.value)), TRUE)
        stored == storeInIndexedDB(idb, PlainName, rec, idbMode)
        failed(cause, ls2) ==
            [ls |-> ls2, idb |-> idb,
             out |-> Outcome("import", password, FALSE, Null, "ImportFailed",
                             cause)]
    IN  IF ~blob.wellFormed THEN failed("MalformedBackup", ls)
        ELSE IF dec.threw THEN failed("AuthenticationFailure", ls)
        ELSE IF lsMode # "ok" THEN failed("StorageWriteFailure", ls)
        ELSE IF stored.threw
             THEN failed("SecondaryStoreFailure",
                         [ls EXCEPT ![PlainName] = rec])
        ELSE [ls |-> [ls EXCEPT ![PlainName] = rec], idb |-> stored.idb,
              out |-> Outcome("import", password, TRUE, dec.value, NoError,
                              NoError)]

\* every error, whatever its origin, is rethrown as the one import error
importKeyFromBackup(ls, idb, blob, password, lsMode, idbMode) ==
    LET dec == decryptKeyWithPassword(blob.data, password)
        rec == KeyRecord(FALSE, PlainData(ToHex(dec.value)), TRUE)
        stored == storeInIndexedDB(idb, PlainName, rec, idbMode)
        failed(cause, ls2) ==
            [ls |-> ls2, idb |-> idb,
             out |-> Outcome("import", password, FALSE, Null, "ImportFailed",
                             cause)]
    IN  IF ~blob.wellFormed THEN failed("MalformedBackup", ls)
        ELSE IF dec.threw THEN failed("AuthenticationFailure", ls)
        ELSE IF calculateChecksum(dec.value) # blob.checksum
             THEN failed("ChecksumMismatch", ls)
        ELSE IF lsMode # "ok" THEN failed("StorageWriteFailure", ls)
        \* the secondary write is awaited without a guard of its own
        ELSE IF stored.threw
             THEN failed("SecondaryStoreFailure",
                         [ls EXCEPT ![PlainName] = rec])
        ELSE [ls |-> [ls EXCEPT ![PlainName] = rec], idb |-> stored.idb,
              out |-> Outcome("import", password, TRUE, dec.value, NoError,
                              NoError)]

(* ------------------------------ file names ----------------------------- *)
\* a name is a sequence of tokens: words (which never contain "chunk_" or
\* "."), the dot, and runs of decimal digits
Word(s) == [t |-> "w", s |-> s, d |-> <<>>]
Num(digits) == [t |-> "d", s |-> "", d |-> digits]
Dot == Word(".")

RECURSIVE DecimalDigits(_)
\* i.toString()
DecimalDigits(n) ==
    IF n < 10 THEN <<n>> ELSE Append(DecimalDigits(n \div 10), n % 10)

\* s.padStart(4, '0')
PadStart4(digits) ==
    IF Len(digits) >= 4 THEN digits
    ELSE [i \in 1..4 |-> IF i <= 4 - Len(digits) THEN 0
                         ELSE digits[i - (4 - Len(digits))]]

RECURSIVE ParseInt(_)
\* parseInt(digits)
ParseInt(digits) ==
    IF digits = <<>> THEN 0
    ELSE 10 * ParseInt(SubSeq(digits, 1, Len(digits) - 1)) + digits[Len(digits)]

\* name.endsWith(suffix)
EndsWith(name, suffix) ==
    /\ Len(name) >= Len(suffix)
    /\ SubSeq(name, Len(name) - Len(suffix) + 1, Len(name)) = suffix

\* name.split('.').pop() || 'bin'
ExtensionOf(name) ==
    LET dots == {p \in 1..Len(name) : name[p] = Dot}
        lastDot == IF dots = {} THEN 0
                   ELSE CHOOSE p \in dots : \A q \in dots : q <= p
        tailPart == SubSeq(name, lastDot + 1, Len(name))
    IN  IF tailPart = <<>> THEN <<Word("bin")>> ELSE tailPart

\* name.replace(`.${extension}`, ''): the first occurrence is removed
StripExtension(name, extension) ==
    LET pat == <<Dot>> \o extension
        at == {p \in 1..(Len(name) - Len(pat) + 1) :
                  SubSeq(name, p, p + Len(pat) - 1) = pat}
    IN  IF at = {} THEN name
        ELSE LET p == CHOOSE q \in at : \A r \in at : q <= r
             IN  SubSeq(name, 1, p - 1) \o SubSeq(name, p + Len(pat), Len(name))

\* `${fileName}_chunk_${i.toString().padStart(4, '0')}.enc`
ChunkFilename(fileName, i) ==
    fileName \o <<Word("_"), Word("chunk_"), Num(PadStart4(DecimalDigits(i))),
                  Dot, Word("enc")>>

\* `${metadata.originalFileName}_metadata.json`
MetadataFilename(fileName) == fileName \o <<Word("_metadata"), Dot, Word("json")>>

EncSuffix == <<Dot, Word("enc")>>
MetadataSuffix == <<Word("_metadata"), Dot, Word("json")>>

\* name.match(/chunk_(\d+)/): the leftmost match; parseInt of its digits,
\* 0 without a match
ChunkNumber(name) ==
    LET hits == {p \in 1..(Len(name) - 1) :
                    name[p] = Word("chunk_") /\ name[p + 1].t = "d"}
    IN  IF hits = {} THEN 0
        ELSE ParseInt(name[(CHOOSE p \in hits : \A q \in hits : p <= q) + 1].d)

(* --------------------------- SecureCryptoUtils ------------------------- *)
calculateHash(data) == Sha256(RawBytes(data))

\* a digest over the chunk digests regardless of their order
CompositeHash_unordered(chunkHashes) ==
    Sha256([raw |-> <<>>,
            hex |-> <<[of |-> [raw |-> <<Len(chunkHashes)>>, hex |-> <<>>]]>>
                    \o IF chunkHashes = <<>> THEN <<>>
                       ELSE <<[of |-> [raw |-> <<>>,
                                       hex |-> {chunkHashes[i] :
                                                  i \in 1..Len(chunkHashes)}]]>>])

\* new TextEncoder().encode(chunkHashes.join('')) and its digest: the
\* digests have a fixed width, so the text determines their sequence
CompositeHash(chunkHashes) == Sha256([raw |-> <<>>, hex |-> chunkHashes])

NoBlob ==
    [iv |-> 0, ct |-> [dk |-> <<>>, iv |-> 0, pt |-> <<>>, tag |-> FALSE]]

\* iv || AES-GCM(cryptoKey, iv, data)
encryptChunk(key, iv, data) == [iv |-> iv, ct |-> AesGcmEncrypt(key, iv, data)]

\* a cipher without authentication: whatever it is given, it hands back
decryptChunk_noAuth(key, blob) == [threw |-> FALSE, value |-> blob.ct.pt]

\* slices the iv off and opens the rest under the loaded key
decryptChunk(key, blob) ==
    IF AesGcmOpens(key, blob.iv, blob.ct)
    THEN [threw |-> FALSE, value |-> blob.ct.pt]
    ELSE [threw |-> TRUE, value |-> <<>>]

RECURSIVE combineChunks(_)
combineChunks(chunks) ==
    IF chunks = <<>> THEN <<>>
    ELSE combineChunks(SubSeq(chunks, 1, Len(chunks) - 1)) \o chunks[Len(chunks)]

(* ------------------------- FileEncryptionService ----------------------- *)
\* Math.floor in place of Math.ceil
TotalChunks_floor(size, chunkSize) == size \div chunkSize

\* Math.ceil(file.size / chunkSize)
TotalChunks(size, chunkSize) == (size + chunkSize - 1) \div chunkSize

\* file.slice(i * chunkSize, Math.min(i * chunkSize + chunkSize, file.size))
ChunkSlice(bytes, chunkSize, i) ==
    LET start == i * chunkSize
        end == IF start + chunkSize < Len(bytes) THEN start + chunkSize
               ELSE Len(bytes)
    IN  SubSeq(bytes, start + 1, end)

NoMetadata ==
    [exists |-> FALSE, originalFileName |-> <<>>, originalExtension |-> <<>>,
     originalSize |-> 0, totalChunks |-> 0, hash |-> CompositeHash(<<>>),
     hashType |-> "none", chunkSize |-> 0]

\* the metadata object encryptFileGenerator returns (timestamp left out)
GeneratorMetadata(file, chunkSize, chunkHashes) ==
    [exists |-> TRUE,
     originalFileName |-> StripExtension(file.name, ExtensionOf(file.name)),
     originalExtension |-> ExtensionOf(file.name),
     originalSize |-> Len(file.bytes),
     totalChunks |-> TotalChunks(Len(file.bytes), chunkSize),
     hash |-> CompositeHash(chunkHashes),
     hashType |-> "composite",
     chunkSize |-> chunkSize]

\* a named file as the browser hands it over: a chunk blob or metadata JSON
ChunkFile(name, blob) == [name |-> name, blob |-> blob, meta |-> NoMetadata]
MetadataFile(meta) ==
    [name |-> MetadataFilename(meta.originalFileName), blob |-> NoBlob,
     meta |-> meta]

(* ----------------------- FileReconstructionService --------------------- *)
RECURSIVE InsertByNumber(_, _)
\* places f after every element whose chunk number is not greater
InsertByNumber(sorted, f) ==
    IF sorted = <<>> THEN <<f>>
    ELSE IF ChunkNumber(sorted[Len(sorted)].name) <= ChunkNumber(f.name)
         THEN Append(sorted, f)
         ELSE Append(InsertByNumber(SubSeq(sorted, 1, Len(sorted) - 1), f),
                     sorted[Len(sorted)])

RECURSIVE SortByChunkNumber(_)
\* files.sort((a, b) => aNum - bNum): Array.prototype.sort is stable
SortByChunkNumber(files) ==
    IF files = <<>> THEN <<>>
    ELSE InsertByNumber(SortByChunkNumber(SubSeq(files, 1, Len(files) - 1)),
                        files[Len(files)])

\* files.filter(pred), order kept
RECURSIVE FilterEndsWith(_, _)
FilterEndsWith(files, suffix) ==
    IF files = <<>> THEN <<>>
    ELSE LET rest == FilterEndsWith(SubSeq(files, 1, Len(files) - 1), suffix)
             f == files[Len(files)]
         IN  IF EndsWith(f.name, suffix) THEN Append(rest, f) ELSE rest

\* what a reconstruction did and handed back: the thrown error with the
\* index and file name its message carries, the hashMatch the code computed,
\* the verdict field of the returned object ("none" when the object has no
\* such field or nothing was returned), the names of the chunk files in the
\* order they were processed, the number of decryptChunk calls made
ReconOutcome(op, ok, err, failedIndex, hashMatch, downloaded, bytes) ==
    [op |-> op, ok |-> ok, err |-> err, failedIndex |-> failedIndex,
     hashMatch |-> hashMatch, downloaded |-> downloaded, bytes |-> bytes,
     verdict |-> IF ~ok THEN "none" ELSE IF hashMatch THEN "true" ELSE "false",
     failedName |-> <<>>, processed |-> <<>>, decryptCalls |-> 0]

\* the names of a list of files
NamesOf(files) == [i \in 1..Len(files) |-> files[i].name]

\* the loose-set protocol without its count validation
reconstructFromChunks_noCount(files, key, confirmed, hashingThrows) ==
    LET op == "reconstructFromChunks"
        metas == FilterEndsWith(files, MetadataSuffix)
        metadata == metas[1].meta
        chunkFiles == SortByChunkNumber(FilterEndsWith(files, EncSuffix))
        dec == [i \in 1..Len(chunkFiles) |-> decryptChunk(key, chunkFiles[i].blob)]
        bad == {i \in 1..Len(chunkFiles) : dec[i].threw}
        firstBad == CHOOSE i \in bad : \A j \in bad : i <= j
        decryptedChunks == [i \in 1..Len(chunkFiles) |-> dec[i].value]
        chunkHashes == [i \in 1..Len(chunkFiles) |->
                           calculateHash(decryptedChunks[i])]
        hashMatch ==
            IF metadata.hashType = "composite"
            THEN CompositeHash(chunkHashes) = metadata.hash
            ELSE IF hashingThrows THEN TRUE
            ELSE calculateHash(combineChunks(decryptedChunks)) = metadata.hash
        failed(err, index) ==
            ReconOutcome(op, FALSE, err, index, FALSE, FALSE, <<>>)
        through == [processed |-> NamesOf(chunkFiles),
                    decryptCalls |-> Len(chunkFiles)]
    IN  IF metas = <<>> THEN failed("MetadataNotFound", -1)
        ELSE IF bad # {}
        THEN [failed("ChunkDecryptionFailure", firstBad - 1)
                 EXCEPT !.failedName = chunkFiles[firstBad].name,
                        !.processed = SubSeq(NamesOf(chunkFiles), 1, firstBad),
                        !.decryptCalls = firstBad]
        ELSE IF ~hashMatch /\ ~confirmed
        THEN [failed("UserCancelled", -1)
                 EXCEPT !.processed = through.processed,
                        !.decryptCalls = through.decryptCalls]
        ELSE [ReconOutcome(op, TRUE, NoError, -1, hashMatch, TRUE,
                           combineChunks(decryptedChunks))
                 EXCEPT !.processed = through.processed,
                        !.decryptCalls = through.decryptCalls]

\* the whole of reconstructFromChunks on a FileList; `confirmed` is the
\* user's answer to the confirm() dialog, `hashingThrows` whether the
\* whole-buffer hash of the legacy path runs out of memory
reconstructFromChunks(files, key, confirmed, hashingThrows) ==
    LET op == "reconstructFromChunks"
        metas == FilterEndsWith(files, MetadataSuffix)
        metadata == metas[1].meta
        chunkFiles == SortByChunkNumber(FilterEndsWith(files, EncSuffix))
        dec == [i \in 1..Len(chunkFiles) |-> decryptChunk(key, chunkFiles[i].blob)]
        bad == {i \in 1..Len(chunkFiles) : dec[i].threw}
        firstBad == CHOOSE i \in bad : \A j \in bad : i <= j
        decryptedChunks == [i \in 1..Len(chunkFiles) |-> dec[i].value]
        chunkHashes == [i \in 1..Len(chunkFiles) |->
                           calculateHash(decryptedChunks[i])]
        hashMatch ==
            IF metadata.hashType = "composite"
            THEN CompositeHash(chunkHashes) = metadata.hash
            ELSE IF hashingThrows THEN TRUE
            ELSE calculateHash(combineChunks(decryptedChunks)) = metadata.hash
        failed(err, index) ==
            ReconOutcome(op, FALSE, err, index, FALSE, FALSE, <<>>)
        through == [processed |-> NamesOf(chunkFiles),
                    decryptCalls |-> Len(chunkFiles)]
    IN  IF metas = <<>> THEN failed("MetadataNotFound", -1)
        ELSE IF Len(chunkFiles) # metadata.totalChunks
        THEN failed("ChunkCountMismatch", -1)
        ELSE IF bad # {}
        THEN [failed("ChunkDecryptionFailure", firstBad - 1)
                 EXCEPT !.failedName = chunkFiles[firstBad].name,
                        !.processed = SubSeq(NamesOf(chunkFiles), 1, firstBad),
                        !.decryptCalls = firstBad]
        ELSE IF ~hashMatch /\ ~confirmed
        THEN [failed("UserCancelled", -1)
                 EXCEPT !.processed = through.processed,
                        !.decryptCalls = through.decryptCalls]
        ELSE [ReconOutcome(op, TRUE, NoError, -1, hashMatch, TRUE,
                           combineChunks(decryptedChunks))
                 EXCEPT !.processed = through.processed,
                        !.decryptCalls = through.decryptCalls]

\* the whole of reconstructFromZip on the entries of the archive, in the
\* order Object.keys(zip.files) lists them: no count validation, the error
\* of decryptChunk passes through as thrown, the legacy hash is not guarded,
\* and the returned object has no hashMatch field
reconstructFromZip(files, key, confirmed, hashingThrows) ==
    LET op == "reconstructFromZip"
        metas == FilterEndsWith(files, MetadataSuffix)
        metadata == metas[1].meta
        chunkFiles == SortByChunkNumber(FilterEndsWith(files, EncSuffix))
        dec == [i \in 1..Len(chunkFiles) |-> decryptChunk(key, chunkFiles[i].blob)]
        bad == {i \in 1..Len(chunkFiles) : dec[i].threw}
        firstBad == CHOOSE i \in bad : \A j \in bad : i <= j
        decryptedChunks == [i \in 1..Len(chunkFiles) |-> dec[i].value]
        chunkHashes == [i \in 1..Len(chunkFiles) |->
                           calculateHash(decryptedChunks[i])]
        hashMatch ==
            IF metadata.hashType = "composite"
            THEN CompositeHash(chunkHashes) = metadata.hash
            ELSE calculateHash(combineChunks(decryptedChunks)) = metadata.hash
        failed(err) ==
            [ReconOutcome(op, FALSE, err, -1, FALSE, FALSE, <<>>)
                EXCEPT !.processed = NamesOf(chunkFiles),
                       !.decryptCalls = Len(chunkFiles)]
    IN  IF metas = <<>>
        THEN ReconOutcome(op, FALSE, "MetadataNotFound", -1, FALSE, FALSE, <<>>)
        ELSE IF bad # {}
        THEN [failed("ChunkDecryptionFailure")
                 EXCEPT !.processed = SubSeq(NamesOf(chunkFiles), 1, firstBad),
                        !.decryptCalls = firstBad]
        ELSE IF metadata.hashType # "composite" /\ hashingThrows
        THEN failed("HashingFailed")
        ELSE IF ~hashMatch /\ ~confirmed THEN failed("UserCancelled")
        ELSE [ReconOutcome(op, TRUE, NoError, -1, hashMatch, TRUE,
                           combineChunks(decryptedChunks))
                 EXCEPT !.verdict = "none",
                        !.processed = NamesOf(chunkFiles),
                        !.decryptCalls = Len(chunkFiles)]

(* ------------------------ archives by name ----------------------------- *)
ZipSuffix == <<Dot, Word("zip")>>
BundleSuffix == <<Word("_encrypted_archive"), Dot, Word("json")>>

\* the JSON bundle createZipDownloadV0 writes: the metadata object and the
\* chunks in the order they were given
ArchiveBundle(files) ==
    LET metas == FilterEndsWith(files, MetadataSuffix)
        IsChunk(f) == ~f.meta.exists
    IN  [metadata |-> IF metas = <<>> THEN NoMetadata ELSE metas[1].meta,
         chunks |-> SelectSeq(files, IsChunk)]

\* the whole of reconstructFromArchiveV0: every embedded chunk is decrypted
\* in its stored order, an error of decryptChunk passes through as thrown,
\* no hash is computed, and the concatenation is downloaded
reconstructFromArchiveV0(bundle, key) ==
    LET op == "reconstructFromArchiveV0"
        n == Len(bundle.chunks)
        dec == [i \in 1..n |-> decryptChunk(key, bundle.chunks[i].blob)]
        bad == {i \in 1..n : dec[i].threw}
        firstBad == CHOOSE i \in bad : \A j \in bad : i <= j
        decryptedChunks == [i \in 1..n |-> dec[i].value]
    IN  IF ~bundle.metadata.exists
        THEN ReconOutcome(op, FALSE, "MalformedArchive", -1, FALSE, FALSE, <<>>)
        ELSE IF bad # {}
        THEN [ReconOutcome(op, FALSE, "ChunkDecryptionFailure", -1, FALSE,
                           FALSE, <<>>)
                 EXCEPT !.processed =
                            SubSeq(NamesOf(bundle.chunks), 1, firstBad),
                        !.decryptCalls = firstBad]
        ELSE [ReconOutcome(op, TRUE, NoError, -1, FALSE, TRUE,
                           combineChunks(decryptedChunks))
                 EXCEPT !.verdict = "none",
                        !.processed = NamesOf(bundle.chunks),
                        !.decryptCalls = n]

\* a dispatch that takes every name that is not a .zip for a JSON bundle
reconstructFromArchive_anyName(archiveName, files, key, confirmed, hashingThrows) ==
    IF EndsWith(archiveName, ZipSuffix)
    THEN reconstructFromZip(files, key, confirmed, hashingThrows)
    ELSE reconstructFromArchiveV0(ArchiveBundle(files), key)

\* reconstructFromArchive on an archive of the given name holding the given
\* files
reconstructFromArchive(archiveName, files, key, confirmed, hashingThrows) ==
    IF EndsWith(archiveName, ZipSuffix)
    THEN reconstructFromZip(files, key, confirmed, hashingThrows)
    ELSE IF EndsWith(archiveName, BundleSuffix)
    THEN reconstructFromArchiveV0(ArchiveBundle(files), key)
    ELSE ReconOutcome("reconstructFromArchive", FALSE, "UnsupportedFormat",
                      -1, FALSE, FALSE, <<>>)

(* ------------------- SecureCryptoUtils.initialize ---------------------- *)
\* hasMasterKey, then generateAndStoreMasterKey or getMasterKey, then
\* crypto.subtle.importKey; every inner error is rethrown as the one
\* initialisation error.  `key` is the handle left in cryptoKey by a
\* successful call, `drew` whether getRandomValues produced key material.
initialize(ls, idb, password, keyMaterial, salt, iv, cryptoAvailable, lsMode, idbMode, hasModes, getModes, importKeyOk) ==
    LET hasKey == hasMasterKey(ls, idb, hasModes)
        g == generateAndStoreMasterKey(ls, idb, password, keyMaterial, salt,
                                       iv, cryptoAvailable, lsMode, idbMode)
        got == getMasterKey(ls, idb, password, getModes)
        obtained == IF hasKey THEN got.ok ELSE g.out.ok
        masterKeyData == IF hasKey THEN got.value ELSE FromHex(g.out.value)
        lsAfter == IF hasKey THEN ls ELSE g.ls
        idbAfter == IF hasKey THEN idb ELSE g.idb
        failed(cause) ==
            [ls |-> lsAfter, idb |-> idbAfter, key |-> Null,
             drew |-> ~hasKey /\ cryptoAvailable,
             out |-> Outcome("initialize", password, FALSE, Null,
                             "InitializeFailed", cause)]
    IN  IF ~obtained
        THEN failed(IF hasKey THEN got.err ELSE g.out.cause)
        ELSE IF ~importKeyOk THEN failed("ImportKeyFailure")
        ELSE [ls |-> lsAfter, idb |-> idbAfter, key |-> masterKeyData,
              drew |-> ~hasKey,
              out |-> Outcome("initialize", password, TRUE, masterKeyData,
                              NoError, NoError)]

(* ----------------------------- useFileUploader ------------------------- *)
\* the hook's state as useState initialises it; `failedBefore` is
\* bookkeeping: whether a submit has failed since the page was loaded
NoSession ==
    [isInitialized |-> FALSE, showPasswordDialog |-> FALSE,
     initializationMode |-> "setup", passwordError |-> "",
     failedBefore |-> FALSE]

\* a variant that always asks for a new password
checkInitialSetup_alwaysSetup(session, hasKey) ==
    [session EXCEPT !.initializationMode = "setup",
                    !.showPasswordDialog = TRUE]

\* checkInitialSetup, given what hasMasterKey() resolved to
checkInitialSetup(session, hasKey) ==
    IF hasKey
    THEN [session EXCEPT !.initializationMode = "unlock",
                         !.showPasswordDialog = TRUE]
    ELSE [session EXCEPT !.initializationMode = "setup",
                         !.showPasswordDialog = TRUE]

\* a variant whose catch is missing: the success path runs regardless
handlePasswordSubmit_noCatch(session, password, initOk) ==
    IF password = NoPassword
    THEN [session EXCEPT !.passwordError = "PasswordRequired",
                         !.failedBefore = TRUE]
    ELSE [session EXCEPT !.isInitialized = TRUE,
                         !.showPasswordDialog = FALSE,
                         !.passwordError = ""]

\* handlePasswordSubmit, given whether SecureCryptoUtils.initialize resolved
handlePasswordSubmit(session, password, initOk) ==
    IF password = NoPassword
    THEN [session EXCEPT !.passwordError = "PasswordRequired",
                         !.failedBefore = TRUE]
    ELSE IF initOk
    THEN [session EXCEPT !.isInitialized = TRUE,
                         !.showPasswordDialog = FALSE,
                         !.passwordError = ""]
    ELSE [session EXCEPT !.passwordError = "InitializeFailed",
                         !.failedBefore = TRUE]

\* the blob parses, opens under the password and carries the right checksum
ImportVerifies(blob, password) ==
    /\ blob.wellFormed
    /\ ~decryptKeyWithPassword(blob.data, password).threw
    /\ calculateChecksum(decryptKeyWithPassword(blob.data, password).value)
           = blob.checksum

(* ------------------------------- state --------------------------------- *)
VARIABLES
    localStorage,   \* primary store: name -> record
    indexedDB,      \* secondary store ('keys' object store): name -> record
    backup,         \* the blob the last successful export handed out
    drawn,          \* how many key materials getRandomValues has produced
    last,           \* outcome of the last key-manager operation
    cryptoKey,      \* SecureCryptoUtils.cryptoKey: the loaded key, or null
    file,           \* the File handed to encryptFileGenerator
    gen,            \* where the generator stands: pc, loop index, chunkHashes
    yielded,        \* the artifacts the generator has yielded so far
    metadata,       \* the metadata the generator returned
    fed,            \* which of the produced files the last FileList held
    recon,          \* outcome of the last reconstruction
    session,        \* the state of the useFileUploader hook
    calls           \* the key-manager calls in progress, one per instance

vaultVars == <<localStorage, indexedDB, backup, drawn, last>>
pipeVars ==
    <<cryptoKey, file, gen, yielded, metadata, fed, recon, session, calls>>
vars == <<vaultVars, pipeVars>>

NoOutcome == Outcome("none", NoPassword, FALSE, Null, NoError, NoError)

NoFile == [name |-> <<>>, bytes |-> <<>>]
NoGenerator == [pc |-> "idle", i |-> 0, chunkHashes |-> <<>>, pulls |-> 0]
NoSelection ==
    [complete |-> FALSE, order |-> "none", kind |-> "none", a |-> 0, b |-> 0,
     confirmed |-> FALSE, withMetadata |-> FALSE, legacy |-> FALSE,
     hashingThrows |-> FALSE, archive |-> <<>>]
NoRecon == ReconOutcome("none", FALSE, NoError, -1, FALSE, FALSE, <<>>)

\* the instances of the application that share the two stores
Callers == {"A", "B"}
NoCall ==
    [pc |-> "idle", op |-> "none", password |-> NoPassword, hasKey |-> FALSE,
     name |-> "", record |-> NoRecord, key |-> Null, order |-> 0,
     out |-> NoOutcome]

VaultInit ==
    /\ localStorage = EmptyStore
    /\ indexedDB = EmptyStore
    /\ backup = NoBackup
    /\ drawn = 0
    /\ last = NoOutcome

PipeIdle ==
    /\ file = NoFile
    /\ gen = NoGenerator
    /\ yielded = <<>>
    /\ metadata = NoMetadata
    /\ fed = NoSelection
    /\ recon = NoRecon
    /\ session = NoSession
    /\ calls = [c \in Callers |-> NoCall]

\* a fresh installation: nothing stored, no key loaded
Init ==
    /\ VaultInit
    /\ cryptoKey = Null
    /\ PipeIdle

(* ------------------------------ actions -------------------------------- *)
\* environment outcomes are drawn only for the steps the call reaches
GenerateAndStoreMasterKey ==
    /\ drawn < NumKeys
    /\ \E password \in OptPasswords, salt \in Salts, iv \in IVs,
          cryptoAvailable \in BOOLEAN :
       \E lsMode \in IF cryptoAvailable THEN LsWriteModes ELSE {"ok"} :
       \E idbMode \in IF cryptoAvailable /\ lsMode = "ok" THEN IdbWriteModes
                                                          ELSE {"ok"} :
        LET r == generateAndStoreMasterKey(localStorage, indexedDB, password,
                     KeyOf(drawn + 1), salt, iv, cryptoAvailable, lsMode,
                     idbMode)
        IN  /\ localStorage' = r.ls
            /\ indexedDB' = r.idb
            /\ last' = r.out
            /\ drawn' = IF cryptoAvailable THEN drawn + 1 ELSE drawn
            /\ UNCHANGED <<backup, pipeVars>>

GetMasterKey ==
    \E password \in OptPasswords :
    \E readModes \in IF getFromLocalStorage(localStorage, password) = Null
                     THEN [StorageNames -> IdbReadModes]
                     ELSE {[n \in StorageNames |-> "ok"]} :
        /\ last' = getMasterKey(localStorage, indexedDB, password, readModes)
        /\ UNCHANGED <<localStorage, indexedDB, backup, drawn, pipeVars>>

HasMasterKey ==
    \E readModes \in IF \E n \in StorageNames : localStorage[n].present
                     THEN {[n \in StorageNames |-> "ok"]}
                     ELSE [StorageNames -> IdbReadModes] :
        /\ last' = Outcome("hasMasterKey", NoPassword,
                           hasMasterKey(localStorage, indexedDB, readModes),
                           Null, NoError, NoError)
        /\ UNCHANGED <<localStorage, indexedDB, backup, drawn, pipeVars>>

ClearAllKeys ==
    \E clearMode \in IdbClearModes :
        LET r == clearAllKeys(localStorage, indexedDB, clearMode)
        IN  /\ localStorage' = r.ls
            /\ indexedDB' = r.idb
            /\ last' = r.out
            /\ UNCHANGED <<backup, drawn, pipeVars>>

ExportKeyForBackup ==
    \E password \in Passwords, salt \in Salts, iv \in IVs :
    \E readModes \in IF getFromLocalStorage(localStorage, NoPassword) = Null
                     THEN [StorageNames -> IdbReadModes]
                     ELSE {[n \in StorageNames |-> "ok"]} :
        LET r == exportKeyForBackup(localStorage, indexedDB, password, salt,
                                    iv, readModes)
        IN  /\ backup' = IF r.out.ok THEN r.blob ELSE backup
            /\ last' = r.out
            /\ UNCHANGED <<localStorage, indexedDB, drawn, pipeVars>>

ImportKeyFromBackup ==
    /\ backup.exists
    /\ \E blob \in {backup} \cup CorruptedCopies(backup),
          password \in OptPasswords :
       \E lsMode \in IF ImportVerifies(blob, password) THEN LsWriteModes
                                                       ELSE {"ok"} :
       \E idbMode \in IF ImportVerifies(blob, password) /\ lsMode = "ok"
                      THEN IdbWriteModes ELSE {"ok"} :
        LET r == importKeyFromBackup(localStorage, indexedDB, blob, password,
                                     lsMode, idbMode)
        IN  /\ localStorage' = r.ls
            /\ indexedDB' = r.idb
            /\ last' = [r.out EXCEPT !.op =
                           IF blob = backup THEN "import" ELSE "importDamaged"]
            /\ UNCHANGED <<backup, drawn, pipeVars>>

Next ==
    \/ GenerateAndStoreMasterKey
    \/ GetMasterKey
    \/ HasMasterKey
    \/ ClearAllKeys
    \/ ExportKeyForBackup
    \/ ImportKeyFromBackup

Spec == Init /\ [][Next]_vars

(* ----------------------- pipeline: inputs and steps -------------------- *)
\* chunk size handed to the generator (CONSTANTS.CHUNK_SIZE is 1 MiB)
ChunkSize == 2
\* number of distinct byte patterns per file size
NumPatterns == 2

FileSizes ==
    {0, 1, ChunkSize - 1, ChunkSize, ChunkSize + 1, 10 * ChunkSize}
FileBytes(size, pattern) ==
    [i \in 1..size |-> (pattern * i + (i \div 3)) % 4]

\* an ordinary name, and the name of a chunk file that is encrypted again
FileNames ==
    {<<Word("report"), Dot, Word("pdf")>>,
     <<Word("report"), Word("_"), Word("chunk_"), Num(<<0, 0, 0, 1>>),
       Dot, Word("enc")>>}
InputFiles ==
    {[name |-> n, bytes |-> FileBytes(size, pattern)] :
        n \in FileNames, size \in FileSizes, pattern \in 1..NumPatterns}

\* handleFileUpload: the generator object is created; its body has not run
CreateGenerator ==
    /\ gen.pc = "idle"
    /\ cryptoKey # Null
    /\ \E f \in InputFiles :
        /\ file' = f
        /\ gen' = [pc |-> "created", i |-> 0, chunkHashes |-> <<>>,
                   pulls |-> 0]
    /\ UNCHANGED <<vaultVars, session, calls, cryptoKey, yielded, metadata, fed, recon>>

\* earlier revision (encryptFile): the catch of a failed chunk only logs, and
\* the loop goes on with the next chunk
GeneratorNext_v0 ==
    /\ gen.pc \in {"created", "suspended"}
    /\ LET total == TotalChunks(Len(file.bytes), ChunkSize)
           fileName == StripExtension(file.name, ExtensionOf(file.name))
           chunkData == ChunkSlice(file.bytes, ChunkSize, gen.i)
           hashes == Append(gen.chunkHashes, calculateHash(chunkData))
       IN  IF gen.i < total
           THEN \E iv \in IVs, encryptThrows \in BOOLEAN :
                   IF encryptThrows
                   THEN /\ gen' = [pc |-> "suspended", i |-> gen.i + 1,
                                   chunkHashes |-> hashes,
                                   pulls |-> gen.pulls + 1]
                        /\ UNCHANGED <<yielded, metadata>>
                   ELSE /\ yielded' = Append(yielded,
                               [blob |-> encryptChunk(cryptoKey, iv, chunkData),
                                filename |-> ChunkFilename(fileName, gen.i),
                                index |-> gen.i])
                        /\ gen' = [pc |-> "suspended", i |-> gen.i + 1,
                                   chunkHashes |-> hashes,
                                   pulls |-> gen.pulls + 1]
                        /\ UNCHANGED metadata
           ELSE /\ metadata' = GeneratorMetadata(file, ChunkSize,
                                                 gen.chunkHashes)
                /\ gen' = [gen EXCEPT !.pc = "done",
                                      !.pulls = gen.pulls + 1]
                /\ UNCHANGED yielded
    /\ UNCHANGED <<vaultVars, session, calls, cryptoKey, file, fed, recon>>

\* an eager producer: the first request runs the loop over every chunk, as
\* encryptFile does, and the second one returns the metadata
GeneratorNext_eager ==
    /\ gen.pc \in {"created", "suspended"}
    /\ LET total == TotalChunks(Len(file.bytes), ChunkSize)
           fileName == StripExtension(file.name, ExtensionOf(file.name))
           chunkData(k) == ChunkSlice(file.bytes, ChunkSize, k)
       IN  IF gen.i < total
           THEN \E iv \in IVs :
                   /\ yielded' = [k \in 1..total |->
                          [blob |-> encryptChunk(cryptoKey, iv, chunkData(k - 1)),
                           filename |-> ChunkFilename(fileName, k - 1),
                           index |-> k - 1]]
                   /\ gen' = [pc |-> "suspended", i |-> total,
                              chunkHashes |-> [k \in 1..total |->
                                  calculateHash(chunkData(k - 1))],
                              pulls |-> gen.pulls + 1]
                   /\ UNCHANGED metadata
           ELSE /\ metadata' = GeneratorMetadata(file, ChunkSize,
                                                 gen.chunkHashes)
                /\ gen' = [gen EXCEPT !.pc = "done",
                                      !.pulls = gen.pulls + 1]
                /\ UNCHANGED yielded
    /\ UNCHANGED <<vaultVars, session, calls, cryptoKey, file, fed, recon>>

\* one iterator.next(): the body runs up to the next yield, to the return of
\* the metadata, or to a throw of encryptChunk
GeneratorNext ==
    /\ gen.pc \in {"created", "suspended"}
    /\ LET total == TotalChunks(Len(file.bytes), ChunkSize)
           fileName == StripExtension(file.name, ExtensionOf(file.name))
           chunkData == ChunkSlice(file.bytes, ChunkSize, gen.i)
           hashes == Append(gen.chunkHashes, calculateHash(chunkData))
       IN  IF gen.i < total
           THEN \E iv \in IVs, encryptThrows \in BOOLEAN :
                   IF encryptThrows
                   THEN /\ gen' = [gen EXCEPT !.pc = "failed",
                                              !.chunkHashes = hashes,
                                              !.pulls = gen.pulls + 1]
                        /\ UNCHANGED <<yielded, metadata>>
                   ELSE /\ yielded' = Append(yielded,
                               [blob |-> encryptChunk(cryptoKey, iv, chunkData),
                                filename |-> ChunkFilename(fileName, gen.i),
                                index |-> gen.i])
                        /\ gen' = [pc |-> "suspended", i |-> gen.i + 1,
                                   chunkHashes |-> hashes,
                                   pulls |-> gen.pulls + 1]
                        /\ UNCHANGED metadata
           ELSE /\ metadata' = GeneratorMetadata(file, ChunkSize,
                                                 gen.chunkHashes)
                /\ gen' = [gen EXCEPT !.pc = "done",
                                      !.pulls = gen.pulls + 1]
                /\ UNCHANGED yielded
    /\ UNCHANGED <<vaultVars, session, calls, cryptoKey, file, fed, recon>>

\* the orders in which the file picker may list the n chunk files
OrderNames == {"ascending", "descending", "rotated"}
Ordering(name, n) ==
    [i \in 1..n |-> IF name = "ascending" THEN i
                    ELSE IF name = "descending" THEN n + 1 - i
                    ELSE (i % n) + 1]

\* what the user may select of the n downloaded chunk files: all of them or
\* all but chunk a, in any listing order; or all of them plus a second copy
\* of chunk a, with the ciphertext of chunk a altered, with chunk a
\* encrypted under another key, or with the contents of chunks a and b
\* exchanged under their names
Selections(n) ==
    {[kind |-> "all", a |-> 0, b |-> 0, order |-> o] : o \in OrderNames}
    \cup {[kind |-> "drop", a |-> a, b |-> 0, order |-> o] :
              a \in 1..n, o \in OrderNames}
    \cup {[kind |-> k, a |-> a, b |-> 0, order |-> "ascending"] :
              k \in {"extra", "tamper", "otherKey"}, a \in 1..n}
    \cup {[kind |-> "swap", a |-> p[1], b |-> p[2], order |-> "ascending"] :
              p \in {q \in (1..n) \X (1..n) : q[1] < q[2]}}

\* a ciphertext with one bit flipped: its tag no longer verifies
Tampered(blob) == [blob EXCEPT !.ct.tag = FALSE]
\* the same plaintext sealed under a key other than the loaded one
UnderOtherKey(blob, key) ==
    encryptChunk(CHOOSE k \in Keys : k # key, blob.iv, blob.ct.pt)
\* the name the browser gives a second download of the same file
CopyName(name) ==
    SubSeq(name, 1, Len(name) - 2) \o <<Word(" (1)"), Dot, Word("enc")>>

\* the FileList (or the entries of the archive) for a selection, with the
\* metadata file once it has been written
FileListOf(sel) ==
    LET n == Len(yielded)
        order == Ordering(sel.order, n)
        Content(i) ==
            IF sel.kind = "swap" /\ i = sel.a THEN yielded[sel.b].blob
            ELSE IF sel.kind = "swap" /\ i = sel.b THEN yielded[sel.a].blob
            ELSE IF sel.kind = "tamper" /\ i = sel.a
            THEN Tampered(yielded[i].blob)
            ELSE IF sel.kind = "otherKey" /\ i = sel.a
            THEN UnderOtherKey(yielded[i].blob, cryptoKey)
            ELSE yielded[i].blob
        picked == [i \in 1..n |->
                      ChunkFile(yielded[order[i]].filename, Content(order[i]))]
        Kept(f) == sel.kind # "drop" \/ f.name # yielded[sel.a].filename
        extra == IF sel.kind = "extra"
                 THEN <<ChunkFile(CopyName(yielded[sel.a].filename),
                                  yielded[sel.a].blob)>>
                 ELSE <<>>
    IN  SelectSeq(picked, Kept) \o extra
        \o (IF metadata.exists THEN <<MetadataFile(metadata)>> ELSE <<>>)

\* the metadata object the earlier encryptFile wrote for the same file: the
\* digest of the whole file and no hashType
LegacyMetadata(f, chunkSize) ==
    [GeneratorMetadata(f, chunkSize, <<>>)
        EXCEPT !.hash = calculateHash(f.bytes), !.hashType = "undefined"]

\* the same files with the metadata file in the earlier format
WithLegacyMetadata(files, f, chunkSize) ==
    [i \in 1..Len(files) |->
        IF files[i].meta.exists
        THEN MetadataFile(LegacyMetadata(f, chunkSize))
        ELSE files[i]]

\* the files of a selection in the format chosen
FilesOf(sel, legacy) ==
    IF legacy THEN WithLegacyMetadata(FileListOf(sel), file, ChunkSize)
              ELSE FileListOf(sel)

\* the names an archive of the file may carry: the two the download manager
\* gives, and one of neither format
ArchiveNames ==
    LET stem == StripExtension(file.name, ExtensionOf(file.name))
    IN  {stem \o <<Word("_encrypted")>> \o ZipSuffix,
         stem \o BundleSuffix,
         stem \o <<Word("_encrypted"), Dot, Word("tar")>>}

\* what is remembered of a selection
Fed(sel, confirmed) ==
    [complete |-> sel.kind = "all" /\ gen.pc = "done", order |-> sel.order,
     kind |-> sel.kind, a |-> sel.a, b |-> sel.b, confirmed |-> confirmed,
     withMetadata |-> metadata.exists, legacy |-> FALSE,
     hashingThrows |-> FALSE, archive |-> <<>>]

\* handleFileReconstruction -> reconstructFromChunks on the selected files.
\* A reconstruction reads the selected files and the loaded key and nothing
\* of an earlier one, so a run follows the first one only.
ReconstructFromChunks ==
    /\ gen.pc \in {"suspended", "done", "failed"}
    /\ recon.op = "none"
    /\ \E sel \in Selections(Len(yielded)), confirmed \in BOOLEAN,
          legacy \in IF metadata.exists THEN BOOLEAN ELSE {FALSE} :
       \E hashingThrows \in IF legacy THEN BOOLEAN ELSE {FALSE} :
        /\ recon' = reconstructFromChunks(FilesOf(sel, legacy), cryptoKey,
                                          confirmed, hashingThrows)
        /\ fed' = [Fed(sel, confirmed) EXCEPT !.legacy = legacy,
                       !.hashingThrows = hashingThrows]
    /\ UNCHANGED <<vaultVars, session, calls, cryptoKey, file, gen, yielded, metadata>>

\* reconstructFromArchive -> reconstructFromZip on an archive of the files
ReconstructFromZip ==
    /\ gen.pc \in {"suspended", "done", "failed"}
    /\ recon.op = "none"
    /\ \E sel \in Selections(Len(yielded)), confirmed \in BOOLEAN,
          legacy \in IF metadata.exists THEN BOOLEAN ELSE {FALSE} :
       \E hashingThrows \in IF legacy THEN BOOLEAN ELSE {FALSE} :
        /\ recon' = reconstructFromZip(FilesOf(sel, legacy), cryptoKey,
                                       confirmed, hashingThrows)
        /\ fed' = [Fed(sel, confirmed) EXCEPT !.legacy = legacy,
                       !.hashingThrows = hashingThrows]
    /\ UNCHANGED <<vaultVars, session, calls, cryptoKey, file, gen, yielded, metadata>>

\* reconstructFromArchive on an archive file of one of the names, holding
\* the selected files; confirm() is reached on the .zip path only
ReconstructFromArchive ==
    /\ gen.pc \in {"suspended", "done", "failed"}
    /\ recon.op = "none"
    /\ \E archiveName \in ArchiveNames, sel \in Selections(Len(yielded)) :
       \E confirmed \in IF EndsWith(archiveName, ZipSuffix) THEN BOOLEAN
                                                            ELSE {FALSE} :
        /\ recon' = reconstructFromArchive(archiveName, FilesOf(sel, FALSE),
                                           cryptoKey, confirmed, FALSE)
        /\ fed' = [Fed(sel, confirmed) EXCEPT !.archive = archiveName]
    /\ UNCHANGED <<vaultVars, session, calls, cryptoKey, file, gen, yielded, metadata>>

\* a session whose key is loaded, with nothing encrypted yet
PipeInit ==
    /\ VaultInit
    /\ cryptoKey \in Keys
    /\ PipeIdle

PipeNext ==
    \/ CreateGenerator
    \/ GeneratorNext
    \/ ReconstructFromChunks
    \/ ReconstructFromZip
    \/ ReconstructFromArchive

PipeSpec == PipeInit /\ [][PipeNext]_vars

(* ------------------------- session: steps ------------------------------ *)
filesVars == <<file, gen, yielded, metadata, fed, recon>>

\* useEffect(() => { checkInitialSetup() }, []): runs once after the mount
CheckInitialSetup ==
    /\ ~session.showPasswordDialog
    /\ ~session.isInitialized
    /\ \E readModes \in IF \E n \in StorageNames : localStorage[n].present
                         THEN {[n \in StorageNames |-> "ok"]}
                         ELSE [StorageNames -> IdbReadModes] :
        LET hasKey == hasMasterKey(localStorage, indexedDB, readModes)
        IN  /\ session' = checkInitialSetup(session, hasKey)
            /\ last' = Outcome("checkInitialSetup", NoPassword, hasKey, Null,
                               NoError, NoError)
    /\ UNCHANGED <<localStorage, indexedDB, backup, drawn, cryptoKey,
                   filesVars, calls>>

\* the submit of the password dialog; the dialog is the only way to it
HandlePasswordSubmit ==
    /\ session.showPasswordDialog
    /\ \E password \in OptPasswords, salt \in Salts, iv \in IVs :
       \E hasModes \in IF password = NoPassword
                           \/ \E n \in StorageNames : localStorage[n].present
                        THEN {[n \in StorageNames |-> "ok"]}
                        ELSE [StorageNames -> IdbReadModes] :
       \E generates \in {password # NoPassword
                         /\ ~hasMasterKey(localStorage, indexedDB, hasModes)} :
       \E cryptoAvailable \in IF ~generates THEN {TRUE}
                               ELSE IF drawn < NumKeys THEN BOOLEAN
                               ELSE {FALSE} :
       \E lsMode \in IF generates /\ cryptoAvailable THEN LsWriteModes
                                                      ELSE {"ok"} :
       \E idbMode \in IF generates /\ cryptoAvailable /\ lsMode = "ok"
                      THEN IdbWriteModes ELSE {"ok"} :
       \E getModes \in IF password # NoPassword /\ ~generates
                           /\ getFromLocalStorage(localStorage, password) = Null
                        THEN [StorageNames -> IdbReadModes]
                        ELSE {[n \in StorageNames |-> "ok"]} :
       \E importKeyOk \in IF password = NoPassword THEN {TRUE} ELSE BOOLEAN :
        LET r == initialize(localStorage, indexedDB, password,
                            KeyOf(drawn + 1), salt, iv, cryptoAvailable,
                            lsMode, idbMode, hasModes, getModes, importKeyOk)
            called == password # NoPassword
        IN  /\ session' = handlePasswordSubmit(session, password,
                                               called /\ r.out.ok)
            /\ localStorage' = IF called THEN r.ls ELSE localStorage
            /\ indexedDB' = IF called THEN r.idb ELSE indexedDB
            /\ cryptoKey' = IF called /\ r.out.ok THEN r.key ELSE cryptoKey
            /\ drawn' = IF called /\ r.drew THEN drawn + 1 ELSE drawn
            /\ last' = IF called
                       THEN [r.out EXCEPT !.op = "handlePasswordSubmit"]
                       ELSE Outcome("handlePasswordSubmit", password, FALSE,
                                    Null, "PasswordRequired", NoError)
    /\ UNCHANGED <<backup, filesVars, calls>>

\* the page is loaded again: the hook's state and the static key handle
\* start over, the two stores stay
Reload ==
    /\ session # NoSession
    /\ session' = NoSession
    /\ cryptoKey' = Null
    /\ last' = Outcome("reload", NoPassword, TRUE, Null, NoError, NoError)
    /\ UNCHANGED <<localStorage, indexedDB, backup, drawn, filesVars, calls>>

\* SecureCryptoUtils.reset(): clears the loaded key handle and nothing else;
\* the hook's state is React state that only the hook's own setters change.
Reset ==
    /\ cryptoKey' = Null
    /\ last' = Outcome("reset", NoPassword, TRUE, Null, NoError, NoError)
    /\ UNCHANGED <<localStorage, indexedDB, backup, drawn, session, filesVars,
                   calls>>

SessionNext ==
    \/ CheckInitialSetup
    \/ HandlePasswordSubmit
    \/ Reload
    \/ Reset
    \/ ClearAllKeys

SessionSpec == Init /\ [][SessionNext]_vars

(* ------------- interleaved calls of two instances ---------------------- *)
\* everything but the stores, the key counter and the calls
raceFrame == <<backup, last, cryptoKey, filesVars, session>>

\* an instance calls generateAndStoreMasterKey(password)
CallGenerate(c) ==
    /\ calls[c].pc = "idle"
    /\ \E password \in OptPasswords :
        calls' = [calls EXCEPT ![c] = [NoCall EXCEPT !.pc = "generate",
                     !.op = "generateAndStoreMasterKey",
                     !.password = password]]
    /\ UNCHANGED <<localStorage, indexedDB, drawn, raceFrame>>

\* an instance calls initializeOrGetMasterKey(password)
CallInitialize(c) ==
    /\ calls[c].pc = "idle"
    /\ \E password \in OptPasswords :
        calls' = [calls EXCEPT ![c] = [NoCall EXCEPT !.pc = "probe",
                     !.op = "initializeOrGetMasterKey",
                     !.password = password]]
    /\ UNCHANGED <<localStorage, indexedDB, drawn, raceFrame>>

\* 'const hasKey = await this.hasMasterKey()' and the branch on it
Probe(c) ==
    /\ calls[c].pc = "probe"
    /\ \E readModes \in IF \E n \in StorageNames : localStorage[n].present
                         THEN {[n \in StorageNames |-> "ok"]}
                         ELSE [StorageNames -> IdbReadModes] :
       LET hasKey == hasMasterKey(localStorage, indexedDB, readModes)
       IN  calls' = [calls EXCEPT ![c].hasKey = hasKey,
                        ![c].pc = IF hasKey THEN "get" ELSE "generate"]
    /\ UNCHANGED <<localStorage, indexedDB, drawn, raceFrame>>

\* the branch that has a key: 'return await this.getMasterKey(password)'
Get(c) ==
    /\ calls[c].pc = "get"
    /\ \E readModes \in
             IF getFromLocalStorage(localStorage, calls[c].password) = Null
             THEN [StorageNames -> IdbReadModes]
             ELSE {[n \in StorageNames |-> "ok"]} :
        calls' = [calls EXCEPT ![c].pc = "done",
                     ![c].out = getMasterKey(localStorage, indexedDB,
                                             calls[c].password, readModes)]
    /\ UNCHANGED <<localStorage, indexedDB, drawn, raceFrame>>

\* generateAndStoreMasterKey up to the record it is about to store: the key
\* material is drawn and, with a password, wrapped (an await)
Generate(c) ==
    /\ calls[c].pc = "generate"
    /\ \E cryptoAvailable \in IF drawn < NumKeys THEN BOOLEAN ELSE {FALSE},
          salt \in Salts, iv \in IVs :
        IF cryptoAvailable
        THEN /\ calls' = [calls EXCEPT ![c].pc = "setItem",
                    ![c].key = KeyOf(drawn + 1),
                    ![c].name = GeneratedName(calls[c].password),
                    ![c].record = GeneratedRecord(KeyOf(drawn + 1),
                                      calls[c].password, salt, iv)]
             /\ drawn' = drawn + 1
        ELSE /\ calls' = [calls EXCEPT ![c].pc = "done",
                    ![c].out = Outcome("generate", calls[c].password, FALSE,
                                   Null, "GenerateFailed",
                                   "UnsupportedEnvironment")]
             /\ drawn' = drawn
    /\ UNCHANGED <<localStorage, indexedDB, raceFrame>>

\* 'localStorage.setItem(storageKey, keyData)'
StorePrimary(c) ==
    /\ calls[c].pc = "setItem"
    /\ \E lsMode \in LsWriteModes :
        IF lsMode = "ok"
        THEN /\ localStorage' = setItem(localStorage, calls[c].name,
                                        calls[c].record)
             /\ calls' = [calls EXCEPT ![c].pc = "storeInIndexedDB",
                    ![c].order = 1 + Cardinality({d \in Callers :
                                                    calls[d].order > 0})]
        ELSE /\ localStorage' = localStorage
             /\ calls' = [calls EXCEPT ![c].pc = "done",
                    ![c].out = Outcome("generate", calls[c].password, FALSE,
                                   Null, "GenerateFailed",
                                   "StorageWriteFailure")]
    /\ UNCHANGED <<indexedDB, drawn, raceFrame>>

\* 'await this.storeInIndexedDB(storageKey, keyData)' in its own try, and
\* the return of the hex key
StoreSecondary(c) ==
    /\ calls[c].pc = "storeInIndexedDB"
    /\ \E idbMode \in IdbWriteModes :
        LET stored == storeInIndexedDB(indexedDB, calls[c].name,
                                       calls[c].record, idbMode)
        IN  /\ indexedDB' = stored.idb
            /\ calls' = [calls EXCEPT ![c].pc = "done",
                   ![c].out = Outcome("generate", calls[c].password, TRUE,
                                  ToHex(calls[c].key), NoError,
                                  IF stored.threw THEN "SecondaryStoreFailure"
                                                  ELSE NoError)]
    /\ UNCHANGED <<localStorage, drawn, raceFrame>>

RaceNext ==
    \E c \in Callers :
        \/ CallGenerate(c)
        \/ CallInitialize(c)
        \/ Probe(c)
        \/ Get(c)
        \/ Generate(c)
        \/ StorePrimary(c)
        \/ StoreSecondary(c)

RaceSpec == Init /\ [][RaceNext]_vars

(* ====================== properties of the key vault ==================== *)
\* the raw key a record protects
KeyIn(rec) == IF rec.encrypted THEN rec.data.ct.pt ELSE FromHex(rec.data.hex)
\* the password a wrapped record or a backup blob was sealed under
SealedUnder(data) == data.ct.dk[1]
AllReadModes == [StorageNames -> IdbReadModes]
AllReadsOk == [n \in StorageNames |-> "ok"]
PrimaryEmpty == \A n \in StorageNames : ~localStorage[n].present
SecondaryEmpty == \A n \in StorageNames : ~indexedDB[n].present

\* C1: hasMasterKey() is false before any key was generated, true after a
\* successful generateAndStoreMasterKey and false again once clearAllKeys has
\* returned, whatever the secondary store did during any of these calls.
C1_HasMasterKeyLifecycle ==
    /\ drawn = 0 =>
          \A rm \in AllReadModes : ~hasMasterKey(localStorage, indexedDB, rm)
    /\ (last.op = "generate" /\ last.ok) =>
          \A rm \in AllReadModes : hasMasterKey(localStorage, indexedDB, rm)
    /\ last.op = "clearAllKeys" =>
          \A rm \in AllReadModes : ~hasMasterKey(localStorage, indexedDB, rm)

\* C3: an installation whose primary store holds a master key K, wrapped or
\* not, can export it under any password P, and importing that blob with P
\* succeeds (storage permitting) and leaves getMasterKey returning K.
C3_BackupSymmetry ==
    /\ (last.op = "export" /\ ~PrimaryEmpty) => last.ok
    /\ (/\ last.op = "import"
        /\ last.pw = SealedUnder(backup.data)
        /\ last.cause \notin {"StorageWriteFailure", "SecondaryStoreFailure"})
       => /\ last.ok
          /\ getMasterKey(localStorage, indexedDB, NoPassword,
                          AllReadsOk).value = KeyIn([encrypted |-> TRUE,
                                                     data |-> backup.data])

\* an import step whose password is not the blob's or whose blob is damaged
ImportMustReject ==
    \/ last'.op = "importDamaged"
    \/ last'.op = "import" /\ last'.pw # SealedUnder(backup.data)

OnlyWrappedRecord ==
    /\ localStorage[EncName].present
    /\ ~localStorage[PlainName].present
    /\ ~indexedDB[PlainName].present

\* C5: getMasterKey without a password on a wrapped record fails with
\* PasswordRequired, not with KeyNotFound.
C5_PasswordRequired ==
    (last.op = "getMasterKey" /\ last.pw = NoPassword /\ OnlyWrappedRecord)
    => (~last.ok /\ last.err = "PasswordRequired")

\* C6: getMasterKey with a wrong password on a wrapped record fails with
\* AuthenticationFailure, not with KeyNotFound and not with a key.
C6_AuthenticationFailure ==
    (/\ last.op = "getMasterKey"
     /\ last.pw \in Passwords
     /\ OnlyWrappedRecord
     /\ last.pw # SealedUnder(localStorage[EncName].data)
     /\ indexedDB[EncName].present =>
            last.pw # SealedUnder(indexedDB[EncName].data))
    => (~last.ok /\ last.err = "AuthenticationFailure")

\* a generate step that got as far as drawing key material
GenerateDrew == last'.op = "generate" /\ drawn' = drawn + 1

\* C7: when the primary write succeeds, generateAndStoreMasterKey succeeds
\* and returns the new key even if the secondary write fails at any step;
\* the primary then holds the new record and the secondary is left as it was.
C7_SecondaryFailureAbsorbed ==
    [][(GenerateDrew /\ last'.cause # "StorageWriteFailure") =>
          /\ last'.ok
          /\ last'.value = ToHex(KeyOf(drawn'))
          /\ localStorage'[GeneratedName(last'.pw)].present
          /\ KeyIn(localStorage'[GeneratedName(last'.pw)]) = KeyOf(drawn')
          /\ (last'.cause = "SecondaryStoreFailure" =>
                 indexedDB' = indexedDB)]_vars

\* a generate call succeeded although its secondary write failed, leaving
\* the secondary without the new record
C7_Witness ==
    /\ last.op = "generate"
    /\ last.ok
    /\ last.cause = "SecondaryStoreFailure"
    /\ KeyIn(localStorage[GeneratedName(last.pw)]) = KeyOf(drawn)
    /\ ~indexedDB[GeneratedName(last.pw)].present

\* C8: when the primary write fails, generateAndStoreMasterKey fails and
\* neither store is modified.
C8_PrimaryFailureAborts ==
    [][(GenerateDrew /\ last'.cause = "StorageWriteFailure") =>
          /\ ~last'.ok
          /\ last'.err = "GenerateFailed"
          /\ localStorage' = localStorage
          /\ indexedDB' = indexedDB]_vars

\* a generate call failed at the primary write over stores that held a key
C8_Witness ==
    /\ last.op = "generate"
    /\ last.cause = "StorageWriteFailure"
    /\ ~last.ok
    /\ ~PrimaryEmpty
    /\ ~SecondaryEmpty

\* C9: a secondary-store failure never makes a KeyVault operation fail; an
\* import of a valid blob with its password succeeds once the primary write
\* did.
C9_SecondaryNeverSurfaces ==
    last.cause = "SecondaryStoreFailure" /\ last.op \in {"generate", "import",
                                                         "clearAllKeys"}
    => last.ok

\* C10: getMasterKey returns the key of the primary store whenever the
\* primary has a record that parses under the password, and the key of the
\* secondary store when the primary has no record and the secondary, read
\* without failure, has one that parses.
C10_PrimaryFirst ==
    last.op = "getMasterKey" =>
        /\ FirstParsed(localStorage, last.pw) # Null =>
              /\ last.ok
              /\ last.value = FirstParsed(localStorage, last.pw)
        /\ (/\ PrimaryEmpty
            /\ FirstParsed(indexedDB, last.pw) # Null
            /\ last.cause # "SecondaryStoreFailure") =>
              /\ last.ok
              /\ last.value = FirstParsed(indexedDB, last.pw)

\* both stores hold a readable record, with different keys, and the
\* primary one was returned
C10_Witness ==
    /\ last.op = "getMasterKey"
    /\ last.ok
    /\ FirstParsed(localStorage, last.pw) # Null
    /\ FirstParsed(indexedDB, last.pw) # Null
    /\ FirstParsed(localStorage, last.pw) # FirstParsed(indexedDB, last.pw)
    /\ last.value = FirstParsed(localStorage, last.pw)

(* ====================== properties of the pipeline ===================== *)
\* C2: for a file of any of the sizes 0, 1, chunkSize-1, chunkSize,
\* chunkSize+1 and 10*chunkSize, reconstructFromChunks on all artifacts and
\* the metadata of a finished encryption, under the same key, delivers the
\* original bytes in the original order with hashMatch = TRUE.
C2_RoundTrip ==
    (recon.op = "reconstructFromChunks" /\ fed.complete) =>
        /\ recon.ok
        /\ recon.downloaded
        /\ recon.bytes = file.bytes
        /\ recon.hashMatch

\* the same round trip for input names that hold no "chunk_<digits>"
RoundTripOrdinaryNames ==
    (/\ recon.op = "reconstructFromChunks"
     /\ fed.complete
     /\ ChunkNumber(file.name) = 0 /\ file.name # <<>>)
    => /\ recon.ok
       /\ recon.downloaded
       /\ recon.bytes = file.bytes
       /\ recon.hashMatch

\* the least n with n * chunkSize >= size
CeilOfRatio(size, chunkSize) ==
    CHOOSE n \in 0..size : n * chunkSize >= size /\ (n = 0 \/ (n - 1) * chunkSize < size)

\* index i written with at least four decimal digits
FourDigits(i) ==
    <<(i \div 1000) % 10, (i \div 100) % 10, (i \div 10) % 10, i % 10>>

\* the name before its last ".extension"
FileStem(name) ==
    LET dots == {p \in 1..Len(name) : name[p] = Dot}
    IN  IF dots = {} THEN name
        ELSE SubSeq(name, 1, (CHOOSE p \in dots : \A q \in dots : q <= p) - 1)

\* C11: encryptFileGenerator yields exactly ceil(size / chunkSize) artifacts,
\* with indices 0, 1, ... in ascending order and the filename
\* <basename>_chunk_<index padded to 4 digits>.enc, and returns its metadata
\* only after the last of them, with totalChunks equal to the number of
\* artifacts yielded and hashType composite.
C11_ArtifactsThenMetadata ==
    /\ Len(yielded) <= CeilOfRatio(Len(file.bytes), ChunkSize)
    /\ \A k \in 1..Len(yielded) :
          /\ yielded[k].index = k - 1
          /\ yielded[k].filename =
                FileStem(file.name)
                \o <<Word("_"), Word("chunk_"), Num(FourDigits(k - 1)), Dot,
                      Word("enc")>>
    /\ metadata.exists =>
          /\ Len(yielded) = CeilOfRatio(Len(file.bytes), ChunkSize)
          /\ metadata.totalChunks = Len(yielded)
          /\ metadata.hashType = "composite"

\* a file whose last chunk is a partial one went through to its metadata
C11_Witness ==
    /\ metadata.exists
    /\ Len(file.bytes) = ChunkSize + 1
    /\ Len(yielded) = 2
    /\ yielded[2].index = 1

\* C12: once the encryption of a chunk has failed, no artifact with a higher
\* index and no metadata is delivered, so a metadata always comes with
\* exactly metadata.totalChunks artifacts.
C12_FailureAbortsEncryption ==
    /\ gen.pc = "failed" =>
          /\ ~metadata.exists
          /\ \A k \in 1..Len(yielded) : yielded[k].index < gen.i
    /\ Len(gen.chunkHashes) > Len(yielded) => ~metadata.exists
    /\ metadata.exists => Len(yielded) = metadata.totalChunks

\* the encryption of the third chunk failed after two artifacts were out
C12_Witness ==
    /\ gen.pc = "failed"
    /\ gen.i = 2
    /\ Len(yielded) = 2

\* a reconstruction of the given entry point that had the metadata file
ReconWithMetadata(op) == recon.op = op /\ fed.withMetadata
\* the number of chunk files in the selection
SelectedChunks ==
    Len(yielded) + (IF fed.kind = "extra" THEN 1 ELSE 0)
                 - (IF fed.kind = "drop" THEN 1 ELSE 0)
\* nothing was handed to the user
NothingDelivered == ~recon.ok /\ ~recon.downloaded /\ recon.bytes = <<>>

\* C13: reconstructFromChunks on a selection whose number of chunk files is
\* not metadata.totalChunks, fewer or more, fails with the chunk-count
\* mismatch before any chunk is decrypted, and delivers nothing.
C13_CountMismatchRejected ==
    (ReconWithMetadata("reconstructFromChunks")
     /\ SelectedChunks # metadata.totalChunks)
    => /\ recon.err = "ChunkCountMismatch"
       /\ recon.decryptCalls = 0
       /\ NothingDelivered

\* a ten-chunk file was reconstructed with one chunk file left out
C13_Witness ==
    /\ ReconWithMetadata("reconstructFromChunks")
    /\ fed.kind = "drop"
    /\ metadata.totalChunks = 10
    /\ recon.err = "ChunkCountMismatch"

\* C14: reconstructFromZip on an archive whose number of chunk entries is not
\* metadata.totalChunks fails with the chunk-count mismatch and delivers
\* nothing.
C14_ZipCountMismatchRejected ==
    (ReconWithMetadata("reconstructFromZip")
     /\ SelectedChunks # metadata.totalChunks)
    => /\ recon.err = "ChunkCountMismatch"
       /\ NothingDelivered

\* C15: in both protocols the chunk files are processed in ascending order
\* of the index their names carry, whatever the order they are listed in.
C15_AscendingIndexOrder ==
    ((ReconWithMetadata("reconstructFromChunks")
      \/ ReconWithMetadata("reconstructFromZip"))
     /\ fed.kind = "all")
    => recon.processed = [k \in 1..Len(yielded) |-> yielded[k].filename]

MismatchReported ==
    /\ ~recon.hashMatch
    /\ recon.ok => recon.verdict = "false"
    /\ ~recon.ok => recon.err = "UserCancelled"

\* C17 (as stated): with the contents of two chunk files exchanged, the
\* recomputed composite hash differs from metadata.hash and the mismatch is
\* reported.
C17_AnyPermutationDetected ==
    (ReconWithMetadata("reconstructFromChunks") /\ ~fed.legacy
     /\ fed.kind = "swap")
    => MismatchReported

\* C17 (amended): with the contents of two chunk files exchanged, the
\* mismatch is reported whenever the two chunks differ in plaintext; an
\* exchange of two chunks with the same plaintext leaves the composite hash
\* and the reconstructed bytes as they were.
C17_ChangedOrderDetected ==
    (ReconWithMetadata("reconstructFromChunks") /\ ~fed.legacy
     /\ fed.kind = "swap")
    => IF yielded[fed.a].blob.ct.pt # yielded[fed.b].blob.ct.pt
       THEN MismatchReported
       ELSE recon.ok /\ recon.hashMatch /\ recon.bytes = file.bytes

\* two chunks with different plaintext were exchanged and the override was
\* given
C17_Witness ==
    /\ ReconWithMetadata("reconstructFromChunks")
    /\ ~fed.legacy
    /\ fed.kind = "swap"
    /\ yielded[fed.a].blob.ct.pt # yielded[fed.b].blob.ct.pt
    /\ recon.ok
    /\ recon.verdict = "false"

\* C18: in the loose-set and the zip protocol, bytes that failed the
\* integrity check are delivered only on the caller's override and then with
\* the verdict hashMatch = FALSE returned; without the override the call
\* fails and delivers nothing.
C18_MismatchNeedsOverride ==
    (ReconWithMetadata("reconstructFromChunks")
     \/ ReconWithMetadata("reconstructFromZip"))
    => /\ (recon.ok /\ ~recon.hashMatch) =>
              /\ fed.confirmed
              /\ recon.downloaded
              /\ recon.verdict = "false"
       /\ recon.err = "UserCancelled" =>
              /\ ~fed.confirmed
              /\ NothingDelivered

\* the same for the loose-set protocol alone
LooseSetMismatchNeedsOverride ==
    ReconWithMetadata("reconstructFromChunks")
    => /\ (recon.ok /\ ~recon.hashMatch) =>
              /\ fed.confirmed
              /\ recon.downloaded
              /\ recon.verdict = "false"
       /\ recon.err = "UserCancelled" =>
              /\ ~fed.confirmed
              /\ NothingDelivered

\* the same order for input names that hold no "chunk_<digits>"
AscendingOrderOrdinaryNames ==
    ((ReconWithMetadata("reconstructFromChunks")
      \/ ReconWithMetadata("reconstructFromZip"))
     /\ fed.kind = "all"
     /\ ChunkNumber(file.name) = 0)
    => recon.processed = [k \in 1..Len(yielded) |-> yielded[k].filename]

(* ======================= properties of the session ===================== *)
\* C19: checkInitialSetup takes the session from Uninitialized to the setup
\* mode exactly if hasMasterKey() answered false and to the unlock mode
\* otherwise, and opens the password dialog in both cases.
C19_ModeFollowsHasMasterKey ==
    last.op = "checkInitialSetup" =>
        /\ session.showPasswordDialog
        /\ ~session.isInitialized
        /\ session.initializationMode \in {"setup", "unlock"}
        /\ session.initializationMode = "setup" <=> ~last.ok
        /\ session.initializationMode = "setup" => PrimaryEmpty
        /\ session.initializationMode = "unlock" =>
               ~(PrimaryEmpty /\ SecondaryEmpty)

\* the check found a stored key and the dialog asks to unlock
C19_Witness ==
    /\ last.op = "checkInitialSetup"
    /\ last.ok
    /\ session.initializationMode = "unlock"
    /\ session.showPasswordDialog

\* some password, entered next with storage and crypto working, unlocks
RetryCanSucceed ==
    \E p \in Passwords :
        initialize(localStorage, indexedDB, p, KeyOf(drawn + 1), 1, 1, TRUE,
                   "ok", "ok", AllReadsOk, AllReadsOk, TRUE).out.ok

\* C20: the session becomes Ready only with a key handle loaded by a
\* successful initialize; a failed submit (empty or wrong password, storage or crypto
\* failure) leaves it not Ready, the handle unset, the dialog open with an
\* error, and a later submit with the right password can still succeed.
C20_ReadyOnlyAfterInitialize ==
    /\ session.isInitialized =>
          /\ ~session.showPasswordDialog
          /\ session.passwordError = ""
    /\ (last.op = "handlePasswordSubmit" /\ last.ok) =>
          /\ session.isInitialized
          /\ cryptoKey = last.value
    /\ (last.op = "handlePasswordSubmit" /\ ~last.ok) =>
          /\ ~session.isInitialized
          /\ cryptoKey = Null
          /\ session.showPasswordDialog
          /\ session.passwordError # ""
          /\ RetryCanSucceed

\* the session became Ready after a submit had failed
C20_Witness ==
    /\ session.isInitialized
    /\ session.failedBefore
    /\ last.op = "handlePasswordSubmit"
    /\ last.ok
    /\ cryptoKey # Null

(* ================== further properties of the key vault ================ *)
\* C26: after any sequence of generateAndStoreMasterKey, importKeyFromBackup
\* and clearAllKeys each store holds at most one master-key record: the
\* record under the unencrypted name and the one under the encrypted name
\* are never both present.
C26_SingletonRecord ==
    /\ ~(localStorage[PlainName].present /\ localStorage[EncName].present)
    /\ ~(indexedDB[PlainName].present /\ indexedDB[EncName].present)

\* C27: a getMasterKey(p) that directly follows a successful
\* generateAndStoreMasterKey(p) returns the key that call generated.
C27_GenerateGetRoundTrip ==
    [][(/\ last.op = "generate" /\ last.ok
        /\ last'.op = "getMasterKey" /\ last'.pw = last.pw)
       => (last'.ok /\ ToHex(last'.value) = last.value)]_vars

\* C28: while the primary store holds a password-wrapped record,
\* getMasterKey without a password or with another password than the one
\* that record is sealed under returns no key.
C28_NoKeyWithoutThePassword ==
    (/\ last.op = "getMasterKey"
     /\ localStorage[EncName].present
     /\ last.pw # SealedUnder(localStorage[EncName].data))
    => ~last.ok

(* ====================== session and key handle ========================= *)
\* C21: the session's Ready flag and the presence of a loaded key handle
\* always agree, and after a reset the handle is dropped and the session is
\* back to Uninitialized.
C21_ReadyAgreesWithHandle ==
    /\ session.isInitialized <=> (cryptoKey # Null)
    /\ last.op = "reset" => (cryptoKey = Null /\ ~session.isInitialized)

(* ===================== interleaved key-manager calls =================== *)
\* the callers that have written the primary store under name n
WritersOf(n) ==
    {c \in Callers : calls[c].order > 0 /\ calls[c].name = n}

LastWriterOf(n) ==
    CHOOSE c \in WritersOf(n) : \A d \in WritersOf(n) : calls[d].order <= calls[c].order

\* C22: a step of an initialisation never replaces a record that a store
\* already holds, also when two initialisations interleave.
C22_InitializeNeverOverwrites ==
    [][\A c \in Callers :
         (calls[c].op = "initializeOrGetMasterKey" /\ calls'[c] # calls[c])
         => \A n \in StorageNames :
               /\ localStorage[n].present => localStorage'[n] = localStorage[n]
               /\ indexedDB[n].present => indexedDB'[n] = indexedDB[n]]_vars

\* C25: every call whose primary write went through reports success with no
\* error, and under each record name the primary store holds exactly the
\* record of the call that wrote that name last.
C25_LastWriteWins ==
    /\ \A c \in Callers :
          (calls[c].pc = "done" /\ calls[c].order > 0)
          => (calls[c].out.ok /\ calls[c].out.err = NoError)
    /\ \A n \in StorageNames :
          IF WritersOf(n) = {} THEN ~localStorage[n].present
          ELSE localStorage[n] = calls[LastWriterOf(n)].record

\* two generateAndStoreMasterKey calls wrote the same name, the second
\* write landing between the first call's two writes; both have returned
C25_Witness ==
    /\ \A c \in Callers :
          /\ calls[c].op = "generateAndStoreMasterKey"
          /\ calls[c].pc = "done"
          /\ calls[c].out.ok
          /\ calls[c].out.cause = NoError
    /\ calls["A"].name = calls["B"].name
    /\ calls["A"].order = 1
    /\ localStorage[calls["A"].name] = calls["B"].record
    /\ indexedDB[calls["A"].name] = calls["A"].record

(* ======================= the generator's pace ========================== *)
\* what the pull-driven generator keeps at every moment
PullBound ==
    /\ Len(gen.chunkHashes) <= gen.pulls
    /\ Len(yielded) <= gen.pulls
    /\ metadata.exists =>
          gen.pulls = TotalChunks(Len(file.bytes), ChunkSize) + 1

\* C24: a chunk is sliced, digested and encrypted only in answer to a
\* request of the consumer, at most one chunk per request, and without a
\* further request nothing more is encrypted and no metadata is produced.
C24_PullDriven ==
    /\ []PullBound
    /\ [][/\ gen'.pulls = gen.pulls =>
                (/\ gen'.chunkHashes = gen.chunkHashes
                 /\ yielded' = yielded
                 /\ metadata' = metadata)
           /\ Len(yielded') <= Len(yielded) + 1
           /\ Len(gen'.chunkHashes) <= Len(gen.chunkHashes) + 1]_vars

\* the consumer has asked twice of a ten-chunk file: two chunks are out,
\* eight are not encrypted, and there is no metadata
C24_Witness ==
    /\ gen.pc = "suspended"
    /\ gen.pulls = 2
    /\ Len(yielded) = 2
    /\ Len(gen.chunkHashes) = 2
    /\ TotalChunks(Len(file.bytes), ChunkSize) = 10
    /\ ~metadata.exists

(* ================= archives and the integrity verdict ================== *)
\* the files the last reconstruction was given, and their metadata
FedFiles == FilesOf(fed, fed.legacy)
FedMetadata == FilterEndsWith(FedFiles, MetadataSuffix)[1].meta
\* the chunk entries of the archive in their stored order
StoredChunks == ArchiveBundle(FedFiles).chunks
\* the plaintext of the file of the given name
PlainOf(name) ==
    (CHOOSE f \in {FedFiles[i] : i \in 1..Len(FedFiles)} : f.name = name).blob.ct.pt
\* the plaintexts of the chunks the reconstruction processed, in its order
DeliveredChunks ==
    [i \in 1..Len(recon.processed) |-> PlainOf(recon.processed[i])]
\* the hash of the processed chunks, of the kind the metadata names, equals
\* metadata.hash
HashEqual ==
    IF FedMetadata.hashType = "composite"
    THEN CompositeHash([i \in 1..Len(DeliveredChunks) |->
                           calculateHash(DeliveredChunks[i])]) = FedMetadata.hash
    ELSE calculateHash(combineChunks(DeliveredChunks)) = FedMetadata.hash

\* C23: reconstructFromArchive takes a name ending in .zip to the container
\* path and a name ending in _encrypted_archive.json to the JSON-bundle path,
\* which decrypts the embedded chunks in their stored order and delivers the
\* concatenation; any other name fails as an unsupported format with nothing
\* decrypted and nothing delivered.
C23_DispatchOnName ==
    fed.archive # <<>> =>
        IF EndsWith(fed.archive, ZipSuffix)
        THEN recon.op = "reconstructFromZip"
        ELSE IF EndsWith(fed.archive, BundleSuffix)
        THEN /\ recon.op = "reconstructFromArchiveV0"
             /\ fed.withMetadata =>
                   IF \A i \in 1..Len(StoredChunks) :
                         AesGcmOpens(cryptoKey, StoredChunks[i].blob.iv,
                                     StoredChunks[i].blob.ct)
                   THEN /\ recon.ok
                        /\ recon.downloaded
                        /\ recon.processed = NamesOf(StoredChunks)
                        /\ recon.bytes =
                              combineChunks([i \in 1..Len(StoredChunks) |->
                                                StoredChunks[i].blob.ct.pt])
                   ELSE NothingDelivered
        ELSE /\ recon.op = "reconstructFromArchive"
             /\ recon.err = "UnsupportedFormat"
             /\ recon.decryptCalls = 0
             /\ NothingDelivered

\* a JSON bundle of a ten-chunk file with the chunks stored last to first
\* was reconstructed: the bytes are the chunks in that order
C23_Witness ==
    /\ EndsWith(fed.archive, BundleSuffix)
    /\ fed.withMetadata
    /\ fed.kind = "all"
    /\ fed.order = "descending"
    /\ Len(yielded) = 10
    /\ recon.ok
    /\ recon.bytes # file.bytes

\* C29: reconstructFromChunks returns hashMatch = TRUE only if the hash it
\* recomputed, composite or of the whole file as the metadata says, equals
\* metadata.hash.
C29_HashMatchMeansEqual ==
    (ReconWithMetadata("reconstructFromChunks")
     /\ recon.ok /\ recon.verdict = "true")
    => HashEqual

\* C30: whichever entry point reconstructed, bytes are delivered only if
\* the recomputed hash equalled metadata.hash or the caller gave the
\* override.
C30_DeliveredOnlyVerified ==
    (recon.op # "none" /\ fed.withMetadata /\ recon.ok /\ recon.downloaded)
    => (HashEqual \/ fed.confirmed)

====
